---------------------------- MODULE Spec2Model ----------------------------
(***************************************************************************)
(* A model of the nREPL client of src/src/main.rs: one TCP connection, the *)
(* message reader read_message_with_timeout, and the operations            *)
(* clone_session, eval_with_timeout, describe, interrupt, is_connected,    *)
(* set_timeouts and close.                                                  *)
(*                                                                         *)
(* Text (String, Vec<u8>) is a sequence of atoms; the wire from the server *)
(* is a sequence of bencode tokens (dictionary/list openers, terminators,  *)
(* byte strings, integers).  Time is counted in units of 30 s.             *)
(***************************************************************************)
EXTENDS Integers, Sequences, FiniteSets, TLC

VARIABLES
    session,       \* NreplClient.session: <<>> is None, <<s>> is Some(s)
    read_timeout,  \* NreplClient.read_timeout, also the socket's read timeout
    sock,          \* bytes the server has sent that the client has not read
    peer,          \* the connection as the OS sees it: open, closed, reset, error
    wire,          \* the requests written to the stream, oldest first
    nextId,        \* how many request ids uuid::Uuid::new_v4 has produced
    pc,            \* "idle", or "read": inside stream.read of the message reader
    call,          \* the public operation in progress
    buffer,        \* read_message_with_timeout's local `buffer`
    relapsed,      \* start_time.elapsed() of read_message_with_timeout
    eelapsed,      \* start_time.elapsed() of eval_with_timeout
    result,        \* eval_with_timeout's local `result`
    ret,           \* what the last finished operation returned
    ncalls,        \* operations called so far; MaxCalls + 1 once dropped
    sent,          \* history: the frames the server has sent, oldest first
    returned,      \* history: the frames the message reader has returned
    late,          \* history: whether each frame was sent after eval's deadline
    arrived,       \* history: the frames whose last byte the client has read
    lastread       \* history: the last stream.read of the operation, if any

vars == <<session, read_timeout, sock, peer, wire, nextId, pc, call, buffer,
          relapsed, eelapsed, result, ret, ncalls, sent, returned, late,
          arrived, lastread>>

---------------------------------------------------------------------------
(* Bounds of the model. *)

\* operations called on one client
MaxCalls == 2
\* frames the server sends on one connection
MaxFrames == 2
\* frames the server sends after the clone exchange, where eval is studied
MaxEvalFrames == 3

\* bytes the server has sent and the client has not read, where the message
\* reader is studied, counted in read chunks
MaxPending == 2

(* Program constants, in the model's units. *)

\* Duration::from_secs(30), the read timeout set by connect: one time unit
DefaultReadTimeout == 1
\* Duration::from_secs(60), the deadline eval() passes: two time units
DefaultEvalTimeout == 2
\* the 1 MiB cap on an undecodable buffer, counted in tokens
MaxMessage == 48
\* the 4096-byte temp_buffer of one stream.read, counted in tokens
ChunkSize == 32

None == <<>>
Some(x) == <<x>>

Min(a, b) == IF a < b THEN a ELSE b
Range(s) == {s[i] : i \in DOMAIN s}

\* uuid::Uuid::new_v4().to_string(): the n-th id is unlike every earlier one
Uuids == <<"u1", "u2", "u3", "u4", "u5", "u6", "u7", "u8", "u9", "u10">>
NewUuid(n) == <<Uuids[n]>>

---------------------------------------------------------------------------
(* serde_bencode::value::Value and the messages built from it. *)

Bytes(s) == [t |-> "bytes", v |-> s]
Integer(s) == [t |-> "int", v |-> s]
List(s) == [t |-> "list", v |-> s]
\* a bool an operation returns, in the shape of the other values
Bool(b) == [t |-> "bool", v |-> b]

EmptyMsg == [k \in {} |-> Bytes(<<>>)]
Put(m, k, v) == [x \in DOMAIN m \cup {k} |-> IF x = k THEN v ELSE m[x]]
Has(m, k) == k \in DOMAIN m
\* `if let Some(Value::Bytes(b)) = response.get(k)`
HasBytes(m, k) == Has(m, k) /\ m[k].t = "bytes"

(* Tokens of the bencode stream.  f is history: the frame a token is of. *)
Tok(k, v, f) == [k |-> k, v |-> v, f |-> f]

\* bencode writes a dictionary's keys in sorted order
KeyOrder == <<"err", "id", "new-session", "out", "status", "value">>

EncodeValue(val, f) ==
    CASE val.t = "bytes" -> <<Tok("s", val.v, f)>>
      [] val.t = "int" -> <<Tok("i", val.v, f)>>
      [] val.t = "list" ->
            <<Tok("l", <<>>, f)>>
            \o [i \in 1..Len(val.v) |-> Tok("s", <<val.v[i]>>, f)]
            \o <<Tok("e", <<>>, f)>>

RECURSIVE EncodeKeys(_, _, _)
EncodeKeys(m, i, f) ==
    IF i > Len(KeyOrder) THEN <<>>
    ELSE (IF Has(m, KeyOrder[i])
          THEN <<Tok("s", <<KeyOrder[i]>>, f)>> \o EncodeValue(m[KeyOrder[i]], f)
          ELSE <<>>)
         \o EncodeKeys(m, i + 1, f)

\* the server's serialisation of one frame
Encode(m, f) == <<Tok("d", <<>>, f)>> \o EncodeKeys(m, 1, f) \o <<Tok("e", <<>>, f)>>

(* serde_bencode::from_bytes::<HashMap<String, Value>>: one dictionary is  *)
(* parsed from the front of the buffer; bytes after it are not looked at.  *)
(* A failure is [ok |-> FALSE], whether the input ended or is malformed.   *)
NoParse == [ok |-> FALSE, val |-> Bytes(<<>>), next |-> 0]

RECURSIVE ParseItems(_, _, _)
ParseItems(buf, i, acc) ==
    IF i > Len(buf) THEN NoParse
    ELSE IF buf[i].k = "e" THEN [ok |-> TRUE, val |-> List(acc), next |-> i + 1]
    ELSE IF buf[i].k = "s" THEN ParseItems(buf, i + 1, acc \o buf[i].v)
    ELSE NoParse

ParseValue(buf, i) ==
    IF i > Len(buf) THEN NoParse
    ELSE CASE buf[i].k = "s" -> [ok |-> TRUE, val |-> Bytes(buf[i].v), next |-> i + 1]
           [] buf[i].k = "i" -> [ok |-> TRUE, val |-> Integer(buf[i].v), next |-> i + 1]
           [] buf[i].k = "l" -> ParseItems(buf, i + 1, <<>>)
           [] OTHER -> NoParse

RECURSIVE ParseEntries(_, _, _)
ParseEntries(buf, i, m) ==
    IF i > Len(buf) THEN [ok |-> FALSE, msg |-> EmptyMsg, n |-> 0]
    ELSE IF buf[i].k = "e" THEN [ok |-> TRUE, msg |-> m, n |-> i]
    ELSE IF buf[i].k # "s" \/ Len(buf[i].v) # 1
         THEN [ok |-> FALSE, msg |-> EmptyMsg, n |-> 0]
    ELSE LET pv == ParseValue(buf, i + 1)
         IN  IF pv.ok THEN ParseEntries(buf, pv.next, Put(m, buf[i].v[1], pv.val))
             ELSE [ok |-> FALSE, msg |-> EmptyMsg, n |-> 0]

from_bytes(buf) ==
    IF Len(buf) = 0 \/ buf[1].k # "d" THEN [ok |-> FALSE, msg |-> EmptyMsg, n |-> 0]
    ELSE ParseEntries(buf, 2, EmptyMsg)

---------------------------------------------------------------------------
(* Results of the public operations. *)

Ok(op, v) == [op |-> op, kind |-> "Ok", err |-> "", val |-> v]
Err(op, e) == [op |-> op, kind |-> "Err", err |-> e, val |-> <<>>]

\* EvalResult::default()
DefaultResult == [value |-> None, output |-> <<>>, error |-> <<>>, has_error |-> FALSE]

\* no operation yet.  sess0, rt0, wire0, ret0 and arr0 are history: the
\* session, the read timeout and the lengths of wire, returned and arrived
\* when the operation was called (arr0: when the eval loop was entered)
NoCall == [op |-> "none", phase |-> "", id |-> <<>>, timeout |-> 0,
           sess0 |-> None, rt0 |-> 0, wire0 |-> 0, ret0 |-> 0, arr0 |-> 0]

\* the HashMap a request is built as, before send_message encodes it
Request(op, id, sess) == [op |-> op, id |-> id, session |-> sess]

(* send_message: what write_all and flush give on a connection in state p. *)
(* BrokenPipe, ConnectionAborted and ConnectionReset become                *)
(* ConnectionClosed, any other error IoError.                              *)
WriteOutcomes(p) ==
    CASE p = "open" -> {"Ok"}
      [] p = "closed" -> {"Ok", "ConnectionClosed"}
      [] p = "reset" -> {"ConnectionClosed"}
      [] p = "error" -> {"IoError"}

---------------------------------------------------------------------------
(* The eval loop's handling of one frame. *)

\* lines 188-193: a frame is skipped when it has a byte-string id that is
\* not the id of the eval request
SkipFrame(msg, eval_id) == HasBytes(msg, "id") /\ msg["id"].v # eval_id

\* lines 195-198: value overwrites
MergeValue(res, msg) ==
    IF HasBytes(msg, "value") THEN Some(msg["value"].v) ELSE res.value

\* lines 200-203: out appends
MergeOut(res, msg) ==
    IF HasBytes(msg, "out") THEN res.output \o msg["out"].v ELSE res.output

\* lines 205-208: err appends
MergeErr(res, msg) ==
    IF HasBytes(msg, "err") THEN res.error \o msg["err"].v ELSE res.error

\* the items of a status list
StatusItems(msg) ==
    IF Has(msg, "status") /\ msg["status"].t = "list"
    THEN Range(msg["status"].v) ELSE {}

\* lines 211-222: "error" in the status list sets has_error
MergeHasError(res, msg) == res.has_error \/ "error" \in StatusItems(msg)

\* lines 212-225: "done" in the status list ends the loop
IsDone(msg) == "done" \in StatusItems(msg)

MergeFrame(res, msg) ==
    [value |-> MergeValue(res, msg), output |-> MergeOut(res, msg),
     error |-> MergeErr(res, msg), has_error |-> MergeHasError(res, msg)]

\* a slip: a new-session of any type is taken for the session
CloneSession_AnyType(msg) ==
    IF Has(msg, "new-session") THEN Some(msg["new-session"].v) ELSE None

\* lines 119-125: the session a clone response carries, None when it has none
CloneSession(msg) ==
    IF HasBytes(msg, "new-session") THEN Some(msg["new-session"].v) ELSE None

---------------------------------------------------------------------------
(* How an operation goes on after the message reader has returned. *)

\* the operation returns r and leaves the session sess
Return(r, sess) ==
    /\ pc' = "idle"
    /\ buffer' = <<>>
    /\ relapsed' = 0
    /\ eelapsed' = 0
    /\ result' = DefaultResult
    /\ ret' = r
    /\ session' = sess
    /\ UNCHANGED <<wire, nextId, call>>

\* lines 323-325: read_message_with_timeout starts with an empty buffer
EnterRead ==
    /\ pc' = "read"
    /\ buffer' = <<>>
    /\ relapsed' = 0

\* lines 146-171 of eval_with_timeout: the eval request is built with the
\* client's session sess and sent, and the loop is entered
SendEval(sess, c) ==
    \E w \in WriteOutcomes(peer) :
        /\ nextId' = nextId + 1
        /\ session' = sess
        /\ IF w = "Ok"
           THEN /\ wire' = Append(wire, Request("eval", NewUuid(nextId + 1), sess))
                /\ call' = [c EXCEPT !.phase = "eval", !.id = NewUuid(nextId + 1),
                                     !.arr0 = Len(arrived')]
                /\ EnterRead
                /\ eelapsed' = 0
                /\ result' = DefaultResult
                /\ ret' = ret
           ELSE /\ wire' = wire
                /\ call' = c
                /\ pc' = "idle"
                /\ buffer' = <<>>
                /\ relapsed' = 0
                /\ eelapsed' = 0
                /\ result' = DefaultResult
                /\ ret' = Err("eval", w)

\* lines 174-177 and 179: the top of the eval loop, reached with result r
EvalLoop(r) ==
    IF eelapsed > call.timeout
    THEN Return(Err("eval", "Timeout"), session)
    ELSE /\ result' = r
         /\ EnterRead
         /\ UNCHANGED <<session, wire, nextId, call, eelapsed, ret>>

\* lines 187-229: the eval loop's body on the frame msg
EvalFrame(msg) ==
    IF SkipFrame(msg, call.id)
    THEN EvalLoop(result)
    ELSE IF IsDone(msg)
         THEN Return(Ok("eval", MergeFrame(result, msg)), session)
         ELSE EvalLoop(MergeFrame(result, msg))

\* lines 119-129 of clone_session, on the response msg
CloneResponse(msg) ==
    IF CloneSession(msg) # None
    THEN Return(Ok("clone", Bytes(CloneSession(msg)[1])), CloneSession(msg))
    ELSE Return(Err("clone", "Other"), session)

\* lines 142-144: eval's own clone_session()?, on the response msg
EvalCloneResponse(msg) ==
    IF CloneSession(msg) # None
    THEN SendEval(CloneSession(msg), call)
    ELSE Return(Err("eval", "Other"), session)

\* a slip: interrupt forgets the session when its response has come
OnMessage_InterruptClears(msg) ==
    CASE call.op = "clone" -> CloneResponse(msg)
      [] call.op = "eval" /\ call.phase = "clone" -> EvalCloneResponse(msg)
      [] call.op = "eval" /\ call.phase = "eval" -> EvalFrame(msg)
      [] call.op = "describe" -> Return(Ok("describe", msg), session)
      [] call.op = "interrupt" -> Return(Ok("interrupt", <<>>), None)
      [] call.op = "close" -> Return(Ok("close", <<>>), None)
      [] call.op = "is_connected" ->
            Return(Ok("is_connected", Bool(TRUE)), session)

\* the message reader returned Ok(msg) to the operation in progress
OnMessage(msg) ==
    CASE call.op = "clone" -> CloneResponse(msg)
      [] call.op = "eval" /\ call.phase = "clone" -> EvalCloneResponse(msg)
      [] call.op = "eval" /\ call.phase = "eval" -> EvalFrame(msg)
      [] call.op = "describe" -> Return(Ok("describe", msg), session)
      [] call.op = "interrupt" -> Return(Ok("interrupt", <<>>), session)
      [] call.op = "close" -> Return(Ok("close", <<>>), None)
      [] call.op = "is_connected" -> Return(Ok("is_connected", Bool(TRUE)), session)

\* a slip: close() propagates the error of its read with `?`
CloseAfterError_Propagate(e) == Return(Err("close", e), session)

\* what close() returns when its read failed with e (lines 400-403)
CloseAfterError(e) == Return(Ok("close", <<>>), None)

\* a slip: describe sends its request once more when its read has failed
OnError_Retry(e) ==
    IF call.op = "describe" /\ Len(wire) = call.wire0 + 1
    THEN /\ wire' = Append(wire, Request("describe", call.id, None))
         /\ EnterRead
         /\ UNCHANGED <<session, nextId, call, eelapsed, result, ret>>
    ELSE CASE call.op = "close" -> CloseAfterError(e)
           [] call.op = "is_connected" ->
                 Return(Ok("is_connected", Bool(FALSE)), session)
           [] OTHER -> Return(Err(call.op, e), session)

\* the message reader returned Err(e) to the operation in progress
OnError(e) ==
    CASE call.op = "close" -> CloseAfterError(e)
      [] call.op = "is_connected" -> Return(Ok("is_connected", Bool(FALSE)), session)
      [] OTHER -> Return(Err(call.op, e), session)

---------------------------------------------------------------------------
(* read_message_with_timeout: one pass of its loop, from stream.read to    *)
(* the test at the top of the next pass.                                   *)

Tags(s) == {s[i].f : i \in DOMAIN s}

RECURSIVE Ascending(_)
Ascending(S) ==
    IF S = {} THEN <<>>
    ELSE LET m == CHOOSE x \in S : \A y \in S : x <= y
         IN  <<m>> \o Ascending(S \ {m})

\* history: the frames whose last token is in chunk, rest being still unread
\* (bytes that are of no frame bear the tag 0)
CompletedBy(chunk, rest) == Ascending(Tags(chunk) \ (Tags(rest) \cup {0}))

\* a slip: the loop goes on without the test of the read deadline
ReadLoop_NoDeadline(buf) ==
    /\ buffer' = buf
    /\ UNCHANGED <<session, wire, nextId, pc, call, relapsed, eelapsed,
                   result, ret>>

\* lines 327-330 and 354, 369: `continue`, then the test of the read deadline
ReadLoop(buf) ==
    IF relapsed > read_timeout
    THEN OnError("Timeout")
    ELSE /\ buffer' = buf
         /\ UNCHANGED <<session, wire, nextId, pc, call, relapsed, eelapsed,
                        result, ret>>

\* a slip: an undecodable buffer grows without a cap
AfterChunk_NoCap(buf) ==
    IF from_bytes(buf).ok
    THEN /\ returned' = Append(returned, buf[1].f)
         /\ OnMessage(from_bytes(buf).msg)
    ELSE /\ returned' = returned
         /\ ReadLoop(buf)

\* lines 341-356: the buffer is decoded from its start after every chunk
AfterChunk(buf) ==
    IF from_bytes(buf).ok
    THEN /\ returned' = Append(returned, buf[1].f)
         /\ OnMessage(from_bytes(buf).msg)
    ELSE /\ returned' = returned
         /\ IF Len(buf) > MaxMessage
            THEN OnError("ParseError")
            ELSE ReadLoop(buf)

\* the n of stream.read's Ok(n) when avail bytes can be had: all of them, or
\* all but the last
ReadSizes(avail) == {avail} \cup (IF avail > 1 THEN {avail - 1} ELSE {})

\* lines 332, 337-338: stream.read gives Ok(n), n > 0
ReadData ==
    /\ pc = "read"
    /\ peer \in {"open", "closed"}
    /\ sock # <<>>
    /\ \E n \in ReadSizes(Min(Len(sock), ChunkSize)) :
        /\ sock' = SubSeq(sock, n + 1, Len(sock))
        /\ arrived' = arrived \o CompletedBy(SubSeq(sock, 1, n), sock')
        /\ lastread' = "data"
        /\ AfterChunk(buffer \o SubSeq(sock, 1, n))
    /\ UNCHANGED <<read_timeout, peer, ncalls, sent, late>>

\* a slip: Ok(0) is reported like any other failed read
EofError_Io == "IoError"

\* what the reader returns on stream.read's Ok(0) (lines 333-336)
EofError == "ConnectionClosed"

\* lines 333-336: stream.read gives Ok(0), the peer has closed
ReadEof ==
    /\ pc = "read"
    /\ peer = "closed"
    /\ sock = <<>>
    /\ lastread' = "eof"
    /\ OnError(EofError)
    /\ UNCHANGED <<read_timeout, sock, peer, ncalls, sent, returned, late,
                   arrived>>

\* lines 371-376: stream.read fails with a reset, or with another error
ReadFail ==
    /\ pc = "read"
    /\ peer \in {"reset", "error"}
    /\ lastread' = peer
    /\ OnError(IF peer = "reset" THEN "ConnectionClosed" ELSE "IoError")
    /\ UNCHANGED <<read_timeout, sock, peer, ncalls, sent, returned, late,
                   arrived>>

\* lines 358-370: stream.read fails with WouldBlock or TimedOut, the socket's
\* read timeout (read_timeout) having passed with nothing to read
ReadWouldBlock ==
    /\ pc = "read"
    /\ peer = "open"
    /\ sock = <<>>
    /\ relapsed >= read_timeout
    /\ lastread' = "wouldblock"
    /\ arrived' = arrived
    /\ IF buffer # <<>> /\ from_bytes(buffer).ok
       THEN /\ returned' = Append(returned, buffer[1].f)
            /\ OnMessage(from_bytes(buffer).msg)
       ELSE /\ returned' = returned
            /\ ReadLoop(buffer)
    /\ UNCHANGED <<read_timeout, sock, peer, ncalls, sent, late>>

\* the eval loop is running
InEvalLoop == call.op = "eval" /\ call.phase = "eval"

\* time passes while the client is blocked in stream.read
Tick ==
    /\ pc = "read"
    /\ relapsed <= read_timeout \/ (InEvalLoop /\ eelapsed <= call.timeout)
    /\ relapsed' = Min(relapsed + 1, read_timeout + 1)
    /\ eelapsed' = IF InEvalLoop THEN Min(eelapsed + 1, call.timeout + 1)
                   ELSE eelapsed
    /\ UNCHANGED <<session, read_timeout, sock, peer, wire, nextId, pc, call,
                   buffer, result, ret, ncalls, sent, returned, late,
                   arrived, lastread>>

---------------------------------------------------------------------------
(* The public operations, from the call to the first stream.read. *)

NewCall(op, phase, id, t) ==
    [op |-> op, phase |-> phase, id |-> id, timeout |-> t,
     sess0 |-> session, rt0 |-> read_timeout, wire0 |-> Len(wire),
     ret0 |-> Len(returned), arr0 |-> Len(arrived)]

\* an operation is called on an idle client
Called ==
    /\ pc = "idle"
    /\ ncalls < MaxCalls
    /\ ncalls' = ncalls + 1
    /\ lastread' = "none"
    /\ UNCHANGED <<sock, peer, sent, returned, late, arrived>>

\* the operation returns r without reading
ReturnAtOnce(r) ==
    /\ ret' = r
    /\ UNCHANGED <<session, pc, buffer, relapsed, eelapsed, result>>

\* what operation op returns when send_message has failed with w: `?` in
\* all but is_connected (lines 281-290), which returns false
Failed(op, w) ==
    IF op = "is_connected" THEN Ok("is_connected", Bool(FALSE)) ELSE Err(op, w)

\* a request `op` with a fresh id and the session sess is handed to
\* send_message; on success the response is read, on failure the operation
\* c returns Failed(c.op, w), or reads all the same when `besteffort`
SendThenRead(c, op, sess, besteffort) ==
    \E w \in WriteOutcomes(peer) :
        /\ nextId' = nextId + 1
        /\ call' = c
        /\ wire' = IF w = "Ok"
                   THEN Append(wire, Request(op, NewUuid(nextId + 1), sess))
                   ELSE wire
        /\ IF w = "Ok" \/ besteffort
           THEN /\ EnterRead
                /\ UNCHANGED <<session, eelapsed, result, ret>>
           ELSE ReturnAtOnce(Failed(c.op, w))

\* lines 61-91: connect
Init ==
    /\ session = None
    /\ read_timeout = DefaultReadTimeout
    /\ sock = <<>>
    /\ peer = "open"
    /\ wire = <<>>
    /\ nextId = 0
    /\ pc = "idle"
    /\ call = NoCall
    /\ buffer = <<>>
    /\ relapsed = 0
    /\ eelapsed = 0
    /\ result = DefaultResult
    /\ ret = Ok("connect", <<>>)
    /\ ncalls = 0
    /\ sent = <<>>
    /\ returned = <<>>
    /\ late = <<>>
    /\ arrived = <<>>
    /\ lastread = "none"

\* lines 93-103: set_timeouts(read_timeout, write_timeout)
SetTimeouts(rt) ==
    /\ Called
    /\ read_timeout' = rt
    /\ call' = NewCall("set_timeouts", "", <<>>, 0)
    /\ ReturnAtOnce(Ok("set_timeouts", <<>>))
    /\ UNCHANGED <<wire, nextId>>

\* lines 105-117: clone_session
CloneSessionCall ==
    /\ Called
    /\ SendThenRead(NewCall("clone", "clone", NewUuid(nextId + 1), 0),
                    "clone", None, FALSE)
    /\ UNCHANGED read_timeout

\* a slip: eval clones a session whether or not the client has one
EvalCall_AlwaysClone(t) ==
    /\ Called
    /\ SendThenRead(NewCall("eval", "clone", NewUuid(nextId + 1), t),
                    "clone", None, FALSE)
    /\ UNCHANGED read_timeout

\* lines 132-168: eval(code) is eval_with_timeout(code, 60 s); without a
\* session clone_session is called first
EvalCall(t) ==
    /\ Called
    /\ IF session = None
       THEN SendThenRead(NewCall("eval", "clone", NewUuid(nextId + 1), t),
                         "clone", None, FALSE)
       ELSE SendEval(session, NewCall("eval", "eval", <<>>, t))
    /\ UNCHANGED read_timeout

\* lines 232-245: describe
DescribeCall ==
    /\ Called
    /\ SendThenRead(NewCall("describe", "", NewUuid(nextId + 1), 0),
                    "describe", None, FALSE)
    /\ UNCHANGED read_timeout

\* a slip: interrupt sends its request without looking at the session
InterruptCall_NoCheck ==
    /\ Called
    /\ SendThenRead(NewCall("interrupt", "", NewUuid(nextId + 1), 0),
                    "interrupt", session, FALSE)
    /\ UNCHANGED read_timeout

\* lines 247-267: interrupt
InterruptCall ==
    /\ Called
    /\ IF session # None
       THEN SendThenRead(NewCall("interrupt", "", NewUuid(nextId + 1), 0),
                         "interrupt", session, FALSE)
       ELSE /\ call' = NewCall("interrupt", "", <<>>, 0)
            /\ ReturnAtOnce(Ok("interrupt", <<>>))
            /\ UNCHANGED <<wire, nextId>>
    /\ UNCHANGED read_timeout

\* lines 269-291: is_connected
IsConnectedCall ==
    /\ Called
    /\ SendThenRead(NewCall("is_connected", "", NewUuid(nextId + 1), 0),
                    "describe", None, FALSE)
    /\ UNCHANGED read_timeout

\* a slip: close sends its request without looking at the session
CloseCall_NoCheck ==
    /\ Called
    /\ SendThenRead(NewCall("close", "", NewUuid(nextId + 1), 0),
                    "close", session, TRUE)
    /\ UNCHANGED read_timeout

\* lines 382-404: close, also what Drop runs
CloseCall ==
    /\ Called
    /\ IF session # None
       THEN SendThenRead(NewCall("close", "", NewUuid(nextId + 1), 0),
                         "close", session, TRUE)
       ELSE /\ call' = NewCall("close", "", <<>>, 0)
            /\ ReturnAtOnce(Ok("close", <<>>))
            /\ UNCHANGED <<wire, nextId>>
    /\ UNCHANGED read_timeout

\* lines 407-411: Drop runs close() when the client goes out of scope, after
\* which no operation is called on it
Drop ==
    /\ pc = "idle"
    /\ ncalls <= MaxCalls
    /\ ncalls' = MaxCalls + 1
    /\ lastread' = "none"
    /\ IF session # None
       THEN SendThenRead(NewCall("close", "", NewUuid(nextId + 1), 0),
                         "close", session, TRUE)
       ELSE /\ call' = NewCall("close", "", <<>>, 0)
            /\ ReturnAtOnce(Ok("close", <<>>))
            /\ UNCHANGED <<wire, nextId>>
    /\ UNCHANGED <<read_timeout, sock, peer, sent, returned, late, arrived>>

---------------------------------------------------------------------------
(* The server and the network. *)

WithId(m, id) == IF id = None THEN m ELSE Put(m, "id", Bytes(id[1]))

\* the ids the server puts on a frame: that of a request it was sent or one
\* no request had
FrameIds == {Some(<<"zz">>)} \cup {Some(wire[i].id) : i \in DOMAIN wire}

\* the same for the eval exchange: the eval request's id, one no request
\* had, or no id at all
EvalFrameIds == {None, Some(<<"zz">>), Some(wire[Len(wire)].id)}

Status(items) == Put(EmptyMsg, "status", List(items))
Field(k, text) == Put(EmptyMsg, k, Bytes(text))

\* the frames of an eval exchange
EvalBodies ==
    { Put(Put(Field("value", <<"6">>), "out", Bytes(<<"a">>)), "err", Bytes(<<"x">>)),
      Put(Put(Put(Field("value", <<"7">>), "out", Bytes(<<"b">>)), "err", Bytes(<<"y">>)),
          "status", List(<<"error">>)),
      Status(<<"done">>),
      Status(<<"error", "done">>) }

\* the frames of a clone, describe, interrupt or close exchange
SessionBodies ==
    { Field("new-session", <<"s1">>),
      Put(EmptyMsg, "new-session", Integer(<<"1">>)),
      Status(<<"done">>) }

\* the frame of a describe exchange
DescribeBodies == { Status(<<"done">>) }

\* the id of a frame, None when it has none
IdOf(m) == IF HasBytes(m, "id") THEN Some(m["id"].v) ELSE None

\* the server sends one frame; what it sends while the client is not
\* reading is seen by the client only at its next read, so it is sent then.
\* Under an id it has sent "done" for, the server sends nothing more.
ServerSend(bodies, ids, max) ==
    /\ pc = "read"
    /\ peer = "open"
    /\ Len(sent) < max
    /\ \E b \in bodies, id \in ids :
        /\ \A i \in DOMAIN sent : IsDone(sent[i]) => IdOf(sent[i]) # id
        /\ sent' = Append(sent, WithId(b, id))
        /\ sock' = sock \o Encode(WithId(b, id), Len(sent) + 1)
    /\ late' = Append(late, InEvalLoop /\ eelapsed > call.timeout)
    /\ UNCHANGED <<session, read_timeout, peer, wire, nextId, pc, call, buffer,
                   relapsed, eelapsed, result, ret, ncalls, returned, arrived,
                   lastread>>

\* the server closes the connection, or the connection breaks
PeerEnds ==
    /\ pc = "read"
    /\ peer = "open"
    /\ peer' \in {"closed", "reset", "error"}
    /\ UNCHANGED <<session, read_timeout, sock, wire, nextId, pc, call, buffer,
                   relapsed, eelapsed, result, ret, ncalls, sent, returned,
                   late, arrived, lastread>>

\* n bytes that are of no frame and open no dictionary
Junk(n) == [i \in 1..n |-> Tok("i", <<>>, 0)]

\* the server sends bytes that are no bencode dictionary, half a read chunk
\* or a whole one at a time
ServerSendsJunk ==
    /\ pc = "read"
    /\ peer = "open"
    /\ \E n \in {ChunkSize \div 2, ChunkSize} :
        /\ Len(sock) + n <= MaxPending * ChunkSize
        /\ sock' = sock \o Junk(n)
    /\ UNCHANGED <<session, read_timeout, peer, wire, nextId, pc, call, buffer,
                   relapsed, eelapsed, result, ret, ncalls, sent, returned,
                   late, arrived, lastread>>

---------------------------------------------------------------------------
\* the read timeouts set_timeouts is called with
ReadTimeouts == {DefaultReadTimeout + 1}
\* the deadlines eval_with_timeout is called with
EvalTimeouts == {DefaultReadTimeout, DefaultEvalTimeout}

Next ==
    \/ CloneSessionCall
    \/ EvalCall(DefaultEvalTimeout)
    \/ DescribeCall
    \/ InterruptCall
    \/ IsConnectedCall
    \/ CloseCall
    \/ Drop
    \/ \E rt \in ReadTimeouts : SetTimeouts(rt)
    \/ ServerSend(SessionBodies, FrameIds, MaxFrames)
    \/ PeerEnds
    \/ ReadData
    \/ ReadEof
    \/ ReadFail
    \/ ReadWouldBlock
    \/ Tick

Spec == Init /\ [][Next]_vars

(* The eval exchange alone, on a client that has cloned its session and on *)
(* a connection that stays up.                                             *)
InitEval ==
    /\ session = Some(<<"s1">>)
    /\ read_timeout = DefaultReadTimeout
    /\ sock = <<>>
    /\ peer = "open"
    /\ wire = <<Request("clone", NewUuid(1), None)>>
    /\ nextId = 1
    /\ pc = "idle"
    /\ call = [op |-> "clone", phase |-> "clone", id |-> NewUuid(1), timeout |-> 0,
               sess0 |-> None, rt0 |-> DefaultReadTimeout, wire0 |-> 0,
               ret0 |-> 0, arr0 |-> 0]
    /\ buffer = <<>>
    /\ relapsed = 0
    /\ eelapsed = 0
    /\ result = DefaultResult
    /\ ret = Ok("clone", Bytes(<<"s1">>))
    /\ ncalls = 1
    /\ sent = <<WithId(Field("new-session", <<"s1">>), Some(NewUuid(1)))>>
    /\ returned = <<1>>
    /\ late = <<FALSE>>
    /\ arrived = <<1>>
    /\ lastread = "data"

NextEval ==
    \/ \E t \in EvalTimeouts : EvalCall(t)
    \/ ServerSend(EvalBodies, EvalFrameIds, 1 + MaxEvalFrames)
    \/ ReadData
    \/ ReadWouldBlock
    \/ Tick

SpecEval == InitEval /\ [][NextEval]_vars

(* The message reader alone, under describe, on a server that also sends   *)
(* bytes that are no message.                                              *)
NextReader ==
    \/ DescribeCall
    \/ ServerSend(DescribeBodies, FrameIds, MaxFrames)
    \/ ServerSendsJunk
    \/ ReadData
    \/ ReadWouldBlock
    \/ Tick

SpecReader == Init /\ [][NextReader]_vars

---------------------------------------------------------------------------
(* What the claims speak of. *)

\* the operation `op` has returned and no other has been called since
Returned(op) == pc = "idle" /\ call.op = op

\* the requests the operation in progress, or the last one, has written
Written == SubSeq(wire, call.wire0 + 1, Len(wire))

\* the frames the message reader has returned to that operation
Handed == SubSeq(returned, call.ret0 + 1, Len(returned))

Last(s) == s[Len(s)]

---------------------------------------------------------------------------
(* C1: every frame the client has received in full from the server has    *)
(* been returned by the message reader, or is held in its buffer for a     *)
(* following message read; and the frames are returned in arrival order,   *)
(* none twice.  The code loses the second of two frames one stream.read    *)
(* delivers together.                                                      *)
C1_NoFrameLost ==
    /\ \A i \in Range(arrived) :
          i \in Range(returned) \/ (pc = "read" /\ i \in Tags(buffer))
    /\ \A j, k \in DOMAIN returned : j < k => returned[j] < returned[k]

(* C2, as claimed: an eval called without a session has, when it returns,  *)
(* put exactly two requests on the wire, a clone and then an eval carrying *)
(* the session of that clone; called with a session it has sent no clone.  *)
C2_ExactlyTwoRequests ==
    Returned("eval") =>
        IF call.sess0 = None
        THEN /\ Len(Written) = 2
             /\ Written[1].op = "clone"
             /\ Written[2].op = "eval"
             /\ Written[2].session = CloneSession(sent[Handed[1]])
        ELSE \A i \in DOMAIN Written : Written[i].op # "clone"

(* C2, amended: an eval called without a session writes a clone request    *)
(* first and, only once that clone has returned a session, the eval        *)
(* request, which carries that session: two requests, the clone first.     *)
(* When the clone fails no eval request is written.  Called with a session *)
(* eval writes no clone request, and its one request carries the session.  *)
C2_LazyClone ==
    call.op = "eval" =>
        IF call.sess0 = None
        THEN /\ Len(Written) <= 2
             /\ Len(Written) >= 1 => Written[1] = Request("clone", Written[1].id, None)
             /\ Len(Written) = 2 =>
                   /\ Handed # <<>>
                   /\ CloneSession(sent[Handed[1]]) # None
                   /\ Written[2] = Request("eval", call.id, CloneSession(sent[Handed[1]]))
                   /\ Written[2].id # Written[1].id
             /\ call.phase = "eval" <=> Len(Written) = 2
             /\ (Returned("eval") /\ Len(Written) < 2) => ret.kind = "Err"
        ELSE /\ Len(Written) <= 1
             /\ \A i \in DOMAIN Written : Written[i] = Request("eval", call.id, call.sess0)

\* an eval called without a session has written its clone and its eval
C2_Witness ==
    /\ call.op = "eval"
    /\ call.sess0 = None
    /\ Len(Written) = 2
    /\ Written[2].op = "eval"

(* C6: when close() has returned it has returned success and the session   *)
(* is absent, however the close exchange went.                             *)
C6_CloseClears ==
    Returned("close") => ret = Ok("close", <<>>) /\ session = None

\* close() has returned after its write had failed and its read had met
\* the closed connection
C6_Witness ==
    /\ Returned("close")
    /\ call.sess0 # None
    /\ Written = <<>>
    /\ lastread = "eof"

(* C7, as claimed: an operation among clone, eval, describe, interrupt and *)
(* close whose stream.read gave 0 bytes has failed with ConnectionClosed.  *)
C7_EofFailsEveryOperation ==
    (pc = "idle" /\ lastread = "eof"
        /\ call.op \in {"clone", "eval", "describe", "interrupt", "close"})
    => ret = Err(call.op, "ConnectionClosed")

(* C7, amended: a 0-byte read during clone, eval, describe or interrupt    *)
(* fails that operation with ConnectionClosed, never with a generic I/O    *)
(* error and never with success; during close the failure is swallowed     *)
(* and close returns success.                                              *)
C7_EofIsConnectionClosed ==
    (pc = "idle" /\ lastread = "eof") =>
        /\ call.op \in {"clone", "eval", "describe", "interrupt"}
              => ret = Err(call.op, "ConnectionClosed")
        /\ call.op = "close" => ret = Ok("close", <<>>)

\* the eval loop has met a 0-byte read
C7_Witness ==
    /\ Returned("eval")
    /\ call.phase = "eval"
    /\ lastread = "eof"

(* C9: when clone_session has returned, then if the message reader handed  *)
(* it a frame with a byte-string new-session S, the session is S and S was *)
(* returned; if it handed it a frame without one, the call failed with     *)
(* Other; if it handed it none (the write or the read failed), the call    *)
(* failed; and in both failures the session is as it was before the call.  *)
C9_Clone ==
    Returned("clone") =>
        IF Handed # <<>>
        THEN IF HasBytes(sent[Handed[1]], "new-session")
             THEN /\ session = Some(sent[Handed[1]]["new-session"].v)
                  /\ ret = Ok("clone", Bytes(sent[Handed[1]]["new-session"].v))
             ELSE /\ ret = Err("clone", "Other")
                  /\ session = call.sess0
        ELSE /\ ret.kind = "Err"
             /\ ret.err # "Other"
             /\ session = call.sess0

\* a clone on a client with a session got a response without new-session
C9_Witness ==
    /\ Returned("clone")
    /\ call.sess0 # None
    /\ Handed # <<>>
    /\ ~Has(sent[Handed[1]], "new-session")

(* C10: interrupt() writes at most one request, and only when the client   *)
(* has a session, which the request carries; without a session it writes   *)
(* nothing, reads nothing, leaves session and timeouts as they were and    *)
(* returns success at once.                                                *)
C10_Interrupt ==
    call.op = "interrupt" =>
        /\ Len(Written) <= 1
        /\ Written # <<>> =>
              /\ call.sess0 # None
              /\ Written[1] = Request("interrupt", call.id, call.sess0)
        /\ call.sess0 = None =>
              /\ Written = <<>>
              /\ pc = "idle"
              /\ lastread = "none"
              /\ Len(returned) = call.ret0
              /\ Len(arrived) = call.arr0
              /\ session = None
              /\ read_timeout = call.rt0
              /\ ret = Ok("interrupt", <<>>)

\* an interrupt on a client with a session has written its request
C10_Witness ==
    /\ call.op = "interrupt"
    /\ call.sess0 # None
    /\ Len(Written) = 1

---------------------------------------------------------------------------
(* The eval exchange as the server conducted it. *)

\* eval has returned a result
EvalOk == Returned("eval") /\ ret.kind = "Ok"

\* the frames that reached the client during the eval loop, in arrival order
Exchange == SubSeq(arrived, call.arr0 + 1, Len(arrived))

RECURSIVE UpToDone(_)
\* the frames of s up to and including the first with "done" in its status
UpToDone(s) ==
    IF s = <<>> THEN <<>>
    ELSE IF IsDone(sent[Head(s)]) THEN <<Head(s)>>
    ELSE <<Head(s)>> \o UpToDone(Tail(s))

IsOwn(i) == ~SkipFrame(sent[i], call.id)

\* the frames of the exchange that are not of another id, up to the "done"
OwnFrames == UpToDone(SelectSeq(Exchange, IsOwn))

RECURSIVE TextOf(_, _)
\* the byte strings under key k of the frames s, one after the other
TextOf(s, k) ==
    IF s = <<>> THEN <<>>
    ELSE (IF HasBytes(sent[Head(s)], k) THEN sent[Head(s)][k].v ELSE <<>>)
         \o TextOf(Tail(s), k)

RECURSIVE Aggregate(_, _)
\* the frames s merged into res one by one
Aggregate(res, s) ==
    IF s = <<>> THEN res ELSE Aggregate(MergeFrame(res, sent[Head(s)]), Tail(s))

(* C3: when eval has returned a result, has_error is true exactly if one   *)
(* of the exchange's frames that are not of another id, at or before the   *)
(* frame with "done", has "error" in its status.  The code misses the      *)
(* "error" of a frame the message reader has lost (C1).                    *)
C3_HasErrorIffErrorFrame ==
    EvalOk =>
        (ret.val.has_error
            <=> \E k \in DOMAIN OwnFrames :
                    "error" \in StatusItems(sent[OwnFrames[k]]))

(* C4: when eval has returned a result, output is the out fields and error *)
(* the err fields of the frames of the request's id, in arrival order, up  *)
(* to and including the frame with "done".  The code misses the text of a  *)
(* frame the message reader has lost (C1).                                 *)
C4_OutputIsConcatenation ==
    EvalOk =>
        /\ ret.val.output = TextOf(OwnFrames, "out")
        /\ ret.val.error = TextOf(OwnFrames, "err")

(* C5: when eval has returned a result and a frame of another id was among *)
(* the frames of the exchange, the result is the one the frames without    *)
(* it give.  In the code a frame of another id that one stream.read        *)
(* delivers together with the frame after it makes the message reader lose *)
(* that frame (C1).                                                        *)
C5_ForeignFrameChangesNothing ==
    (EvalOk /\ \E k \in DOMAIN Exchange : ~IsOwn(Exchange[k]))
    => ret.val = Aggregate(DefaultResult, OwnFrames)

(* C8: eval returns a result only if a frame with "done" for the request   *)
(* reached the client before the deadline had elapsed.  The code tests the *)
(* deadline only before each message read, and a "done" that comes during  *)
(* the read, after the deadline, still ends the call with a result.        *)
C8_NoResultAfterDeadline ==
    EvalOk =>
        \E k \in DOMAIN Exchange :
            /\ IsOwn(Exchange[k])
            /\ IsDone(sent[Exchange[k]])
            /\ ~late[Exchange[k]]

---------------------------------------------------------------------------
\* the exchange of request j is over: a frame with "done" under its id has
\* reached the client, or the connection is no longer open
ExchangeOver(j) ==
    \/ peer # "open"
    \/ \E i \in Range(arrived) :
          IdOf(sent[i]) = Some(wire[j].id) /\ IsDone(sent[i])

(* C11: whenever the client writes a request, the exchange of every eval    *)
(* request it wrote earlier is over: its frame with "done" has reached the  *)
(* client or the connection is no longer open.  In the code an eval that    *)
(* has ended in Timeout leaves its exchange open, and the next operation    *)
(* writes its request all the same.                                        *)
C11_OneExchangeOutstanding ==
    [][Len(wire') > Len(wire) =>
          \A j \in DOMAIN wire : wire[j].op = "eval" => ExchangeOver(j)]_vars

\* the operations that take the first frame they are handed as the response
TakesFirstFrame ==
    \/ call.op \in {"clone", "describe", "interrupt"}
    \/ call.op = "eval" /\ call.sess0 = None

(* C12: the frame that clone, describe, interrupt or eval's own clone takes *)
(* as the response does not carry the id of a request written before the    *)
(* operation was called.  In the code these operations take whatever frame  *)
(* the message reader returns first, a late frame of an earlier request     *)
(* included.                                                                *)
C12_NoStaleResponse ==
    (TakesFirstFrame /\ Handed # <<>>) =>
        \A j \in 1..call.wire0 : IdOf(sent[Handed[1]]) # Some(wire[j].id)

---------------------------------------------------------------------------
\* what a step of the message reader or of the clock changes
rvars == <<pc, sock, buffer, relapsed, eelapsed>>

(* Time advances, and stream.read returns: with data when there is some,   *)
(* with Ok(0) when the peer has closed, with an error when the connection  *)
(* has failed, and with WouldBlock when the socket's read timeout (set at  *)
(* lines 65 and 100) has passed.                                           *)
Fairness ==
    /\ WF_rvars(Tick)
    /\ WF_rvars(ReadData)
    /\ WF_rvars(ReadEof)
    /\ WF_rvars(ReadFail)
    /\ WF_rvars(ReadWouldBlock)

SpecLive == Init /\ [][Next]_vars /\ Fairness

---------------------------------------------------------------------------
\* the step in which close() is called, by the caller or by Drop
CloseIsCalled == ncalls' # ncalls /\ call'.op = "close"

(* C14: a close() called when no session exists writes no request, reads   *)
(* nothing and changes nothing: it returns success at once; and a close()  *)
(* called right after a close() finds no session, so that the two put at   *)
(* most one close request on the wire.                                     *)
C14_CloseIdempotent ==
    [][CloseIsCalled =>
          /\ Returned("close") => session = None
          /\ session = None =>
                /\ wire' = wire
                /\ nextId' = nextId
                /\ pc' = "idle"
                /\ session' = None
                /\ read_timeout' = read_timeout
                /\ sock' = sock
                /\ buffer' = buffer
                /\ returned' = returned
                /\ arrived' = arrived
                /\ ret' = Ok("close", <<>>)]_vars

\* close() was called on a client with a session and then once more, by
\* Drop: the second call has returned and the last request is the first's
C14_Witness ==
    /\ Returned("close")
    /\ ncalls = MaxCalls + 1
    /\ call.sess0 = None
    /\ wire # <<>>
    /\ Last(wire).op = "close"
    /\ call.wire0 = Len(wire)

---------------------------------------------------------------------------
\* bytes that can never become a message, however they are extended: the
\* first of them does not open a dictionary
Malformed(buf) == buf # <<>> /\ buf[1].k # "d"

(* C15: the message reader does not go on reading with a buffer that can   *)
(* never become a message: it has failed with ParseError by then.  The     *)
(* code takes every failure to decode for a lack of bytes and reads on,    *)
(* until the read deadline or the size cap.                                *)
C15_MalformedFailsAtOnce == pc = "read" => ~Malformed(buffer)

---------------------------------------------------------------------------
\* stream.read gives bytes in this step
ChunkIsRead == pc = "read" /\ Len(sock') < Len(sock)

\* the buffer with the bytes this step reads
Accumulated == buffer \o SubSeq(sock, 1, Len(sock) - Len(sock'))

(* C17: when a chunk is read, the message read fails with ParseError       *)
(* exactly if the accumulated bytes exceed the cap and are no message; the *)
(* message reader reads on only with at most the cap in its buffer, so the *)
(* buffer never holds more than the cap and one read chunk.                *)
C17_SizeCap ==
    [][ChunkIsRead =>
          /\ Len(Accumulated) <= MaxMessage + ChunkSize
          /\ (~from_bytes(Accumulated).ok /\ Len(Accumulated) > MaxMessage)
                <=> (pc' = "idle" /\ ret' = Err(call.op, "ParseError"))
          /\ pc' = "read" => Len(buffer') <= MaxMessage]_vars

\* describe has failed with ParseError on a buffer of the cap and one chunk
C17_Witness ==
    /\ Returned("describe")
    /\ ret = Err("describe", "ParseError")
    /\ lastread = "data"

---------------------------------------------------------------------------
\* the bytes the message reader holds, followed by those it has yet to read
Pending == buffer \o sock

(* C16: when an operation has ended with Timeout, the bytes the message    *)
(* reader holds followed by the unread bytes begin at the start of a       *)
(* frame, so that the next message read decodes from a frame's first byte. *)
(* The code drops the part of a frame it had read when the deadline        *)
(* passed, and the next message read starts with the rest of that frame.   *)
C16_PartialFrameRetained ==
    (pc = "idle" /\ ret = Err(call.op, "Timeout") /\ Pending # <<>>)
    => Pending[1].k = "d"

---------------------------------------------------------------------------
RECURSIVE LastValue(_)
\* the value field of the last of the frames s that has one, None if none has
LastValue(s) ==
    IF s = <<>> THEN None
    ELSE IF HasBytes(sent[Last(s)], "value") THEN Some(sent[Last(s)]["value"].v)
    ELSE LastValue(SubSeq(s, 1, Len(s) - 1))

(* C18: when eval has returned a result from an exchange all of whose      *)
(* frames carry the request's id, value is the value field of the last     *)
(* frame, at or before the frame with "done", that has one, and None if    *)
(* no such frame has one.  The code misses the value of a frame the        *)
(* message reader has lost (C1).                                           *)
C18_ValueIsLastValue ==
    (EvalOk /\ \A k \in DOMAIN Exchange : IdOf(sent[Exchange[k]]) = Some(call.id))
    => ret.val.value = LastValue(OwnFrames)

---------------------------------------------------------------------------
\* the requests one call of op may write
MaxRequests(op) == IF op = "eval" THEN 2 ELSE 1

\* eval's own clone is handed a response with a session in this step
CloneSucceeds ==
    /\ call.op = "eval" /\ call.phase = "clone"
    /\ Len(returned') = Len(returned) + 1
    /\ CloneSession(sent[Last(returned')]) # None

(* C19: in every step, the operation in progress has written at most one   *)
(* request, eval at most two, a clone and an eval; no request is written   *)
(* twice; and a request is written only in the step an operation is        *)
(* called, or by eval when its own clone has succeeded: never after a      *)
(* write or a read of the call has failed.                                 *)
C19_NoRetry ==
    [][/\ Len(Written') <= MaxRequests(call'.op)
       /\ \A i, j \in DOMAIN Written' : i < j => Written'[i].op # Written'[j].op
       /\ \A i, j \in DOMAIN wire' : i < j => wire'[i].id # wire'[j].id
       /\ Len(wire') <= Len(wire) + 1
       /\ wire' # wire => (pc = "idle" \/ CloneSucceeds)]_vars

\* an eval without a session has written its two requests and then failed
\* in a read
C19_Witness ==
    /\ Returned("eval")
    /\ call.sess0 = None
    /\ Len(Written) = 2
    /\ ret.kind = "Err"
    /\ lastread # "none"

---------------------------------------------------------------------------
\* a clone, direct or eval's own, is handed a response in this step
CloneIsAnswered ==
    /\ call.op = "clone" \/ (call.op = "eval" /\ call.phase = "clone")
    /\ Len(returned') = Len(returned) + 1

\* the life of the session, step by step: absent at connect; set only by a
\* clone response with new-session, to that session; cleared only by close;
\* untouched by describe, interrupt, is_connected and set_timeouts; and
\* every request written carries the session the client holds if it is an
\* eval, interrupt or close, which then is present, and none otherwise
LifecycleStep ==
    /\ ncalls = 0 => session = None
    /\ (session' # session /\ session' # None) =>
          /\ CloneIsAnswered
          /\ session' = CloneSession(sent[Last(returned')])
    /\ (session' # session /\ session' = None) => call.op = "close"
    /\ call'.op \in {"describe", "interrupt", "is_connected", "set_timeouts"}
          => session' = session
    /\ wire' # wire =>
          IF Last(wire').op \in {"eval", "interrupt", "close"}
          THEN Last(wire').session = session' /\ session' # None
          ELSE Last(wire').session = None

\* the operation that has failed is an eval whose own clone had succeeded
FailedAfterOwnClone ==
    /\ call'.op = "eval" /\ call'.sess0 = None
    /\ Handed' # <<>>
    /\ CloneSession(sent'[Handed'[1]]) # None

(* C20, as claimed: the life of the session as above, and every operation  *)
(* that fails leaves the session as it was when the operation was called.  *)
C20_FailureLeavesSession ==
    [][/\ LifecycleStep
       /\ (pc' = "idle" /\ ret'.kind = "Err") => session' = call'.sess0]_vars

(* C20, amended: the life of the session as above, and every operation     *)
(* that fails leaves the session as it was when the operation was called,  *)
(* but for an eval called without a session whose own clone has succeeded: *)
(* when that eval fails, the client keeps the session of the clone.        *)
C20_SessionLifecycle ==
    [][/\ LifecycleStep
       /\ (pc' = "idle" /\ ret'.kind = "Err") =>
             IF FailedAfterOwnClone
             THEN session' = CloneSession(sent'[Handed'[1]])
             ELSE session' = call'.sess0]_vars

\* an eval called without a session has failed after its own clone had
\* succeeded, and the client holds the session of that clone
C20_Witness ==
    /\ Returned("eval")
    /\ ret.kind = "Err"
    /\ call.sess0 = None
    /\ session # None

=============================================================================
